---- MODULE Spec2Model ----
(***************************************************************************)
(* A model of tools/build_notes.py: the batch pipeline that turns the      *)
(* LaTeX notes under notes_staging/<topic>/<course>/ into .qmd documents,  *)
(* a homepage (index.qmd) and the site configuration (_quarto.yml).        *)
(*                                                                         *)
(* Python strings are sequences of one-character strings, compared by code *)
(* point as Python compares them.  None is the value below.                *)
(***************************************************************************)
EXTENDS Integers, Sequences, FiniteSets, TLC

VARIABLES
    env,        \* the world the run starts in (tools, staging tree, old output)
    pc,         \* position of main()
    tex_files,  \* main: tex_files
    notes,      \* main: notes (the registry)
    idx,        \* main: position of `for n in notes`
    out_dir,    \* the directory OUT_DIR: None when absent, else its files
    index_qmd,  \* REPO_ROOT/index.qmd
    quarto_yml, \* REPO_ROOT/_quarto.yml
    exit_code,  \* <<status>> once the process has exited, <<>> while it runs
    stderr,     \* the error messages printed so far
    log,        \* the file-system operations of main so far, in order
    meta_lines, \* parse_tex_metadata: the lines of the file being read
    meta_pos,   \* parse_tex_metadata: index of the next line of `for line in f`
    meta        \* parse_tex_metadata: the dict meta

vars == <<env, pc, tex_files, notes, idx, out_dir, index_qmd, quarto_yml,
          exit_code, stderr, log, meta_lines, meta_pos, meta>>

None == <<"<None>">>

(***************************************************************************)
(* Characters and strings                                                  *)
(***************************************************************************)
Digits == <<"0", "1", "2", "3", "4", "5", "6", "7", "8", "9">>

Upper == <<"A", "B", "C", "D", "E", "F", "G", "H", "I", "J", "K", "L", "M",
           "N", "O", "P", "Q", "R", "S", "T", "U", "V", "W", "X", "Y", "Z">>

Lower == <<"a", "b", "c", "d", "e", "f", "g", "h", "i", "j", "k", "l", "m",
           "n", "o", "p", "q", "r", "s", "t", "u", "v", "w", "x", "y", "z">>

Range(f) == {f[i] : i \in DOMAIN f}

\* the same sequence, every element computed once
Listed(f) == f \o <<>>

\* the same function, every value computed once
Tabled(f) == f @@ <<>>

IndexIn(c, tbl) == CHOOSE i \in DOMAIN tbl : tbl[i] = c

DigitChars == Range(Digits)

UpperChars == Range(Upper)

LowerChars == Range(Lower)

IsDigit(c) == c \in DigitChars

IsUpper(c) == c \in UpperChars

IsLower(c) == c \in LowerChars

IsAlpha(c) == IsUpper(c) \/ IsLower(c)

\* \w of the re module, on ASCII
IsWord(c) == IsAlpha(c) \/ IsDigit(c) \/ c = "_"

\* the ASCII control characters with no escape in a string: chr(11), chr(28..31)
VT == ""

FS == ""

GS == ""

RS == ""

US == ""

\* \s of the re module and str.strip()'s whitespace, on ASCII: str.isspace()
SpaceChars == {" ", "\t", "\n", "\r", "\f", VT, FS, GS, RS, US}

IsSpace(c) == c \in SpaceChars

\* ord(c) for the ASCII characters the model uses
OrdOf(c) ==
    CASE IsDigit(c) -> 47 + IndexIn(c, Digits)
      [] IsUpper(c) -> 64 + IndexIn(c, Upper)
      [] IsLower(c) -> 96 + IndexIn(c, Lower)
      [] c = "\t" -> 9
      [] c = "\n" -> 10
      [] c = "\f" -> 12
      [] c = "\r" -> 13
      [] c = VT -> 11
      [] c = FS -> 28
      [] c = GS -> 29
      [] c = RS -> 30
      [] c = US -> 31
      [] c = " " -> 32
      [] c = "!" -> 33
      [] c = "%" -> 37
      [] c = "&" -> 38
      [] c = "'" -> 39
      [] c = "+" -> 43
      [] c = "," -> 44
      [] c = "-" -> 45
      [] c = "." -> 46
      [] c = "/" -> 47
      [] c = ":" -> 58
      [] c = "\\" -> 92
      [] c = "_" -> 95

Chars ==
    DigitChars \cup UpperChars \cup LowerChars \cup
    {"\t", "\n", "\f", "\r", VT, FS, GS, RS, US, " ", "!", "%", "&", "'", "+", ",", "-", ".", "/", ":", "\\", "_"}

OrdTable == [c \in Chars |-> OrdOf(c)]

Ord(c) == OrdTable[c]

LowerTable == [c \in Chars |-> IF IsUpper(c) THEN Lower[IndexIn(c, Upper)] ELSE c]

UpperTable == [c \in Chars |-> IF IsLower(c) THEN Upper[IndexIn(c, Lower)] ELSE c]

LowerChar(c) == LowerTable[c]

UpperChar(c) == UpperTable[c]

\* str.lower()
StrLower(s) == Listed([i \in 1..Len(s) |-> LowerChar(s[i])])

\* s < t for Python str: first differing code point, or proper prefix
StrLt(s, t) ==
    \E k \in 0..Len(s) :
        /\ k <= Len(t)
        /\ \A i \in 1..k : s[i] = t[i]
        /\ \/ k = Len(s) /\ k < Len(t)
           \/ k < Len(s) /\ k < Len(t) /\ Ord(s[k + 1]) < Ord(t[k + 1])

\* str.lstrip() / str.strip() with a character class
LStripBy(s, drop) ==
    LET keep == {i \in 1..Len(s) : s[i] \notin drop}
    IN  IF keep = {} THEN <<>>
        ELSE SubSeq(s, CHOOSE i \in keep : \A j \in keep : i <= j, Len(s))

StripBy(s, drop) ==
    LET keep == {i \in 1..Len(s) : s[i] \notin drop}
    IN  IF keep = {} THEN <<>>
        ELSE SubSeq(s, CHOOSE i \in keep : \A j \in keep : i <= j,
                       CHOOSE i \in keep : \A j \in keep : i >= j)

LStrip(s) == LStripBy(s, SpaceChars)

Strip(s) == StripBy(s, SpaceChars)

\* re.sub(r"[class]+", repl, s): every maximal run of the class becomes repl
SubRuns(s, class, repl) ==
    LET marked == [i \in 1..Len(s) |->
                     IF s[i] \in class
                     THEN IF i > 1 /\ s[i - 1] \in class THEN "" ELSE repl
                     ELSE s[i]]
    IN  SelectSeq(marked, LAMBDA c : c # "")

\* str.replace(old, new) for single characters
ReplaceChar(s, old, new) == [i \in 1..Len(s) |-> IF s[i] = old THEN new ELSE s[i]]

\* str.title(): a letter is upper-cased after a non-letter, lower-cased after a letter
StrTitle(s) ==
    [i \in 1..Len(s) |->
        IF i > 1 /\ IsAlpha(s[i - 1]) THEN LowerChar(s[i]) ELSE UpperChar(s[i])]

\* "sep".join(parts)
RECURSIVE Join(_, _)
Join(parts, sep) ==
    IF Len(parts) = 0 THEN <<>>
    ELSE IF Len(parts) = 1 THEN parts[1]
    ELSE parts[1] \o sep \o Join(Tail(parts), sep)

(***************************************************************************)
(* slugify, safe_segment                                                   *)
(***************************************************************************)
\* the characters re.sub(r"[^\w\s-]", "", s) keeps
IsKept(c) == IsWord(c) \/ IsSpace(c) \/ c = "-"

\* [\s_]
SpaceOrUnderscore == SpaceChars \cup {"_"}

\* the hyphen class of re.sub(r"-+", "-", s) and strip("-")
Hyphen == {"-"}

slugify(s) ==
    LET s1 == StrLower(Strip(s))
        s2 == SelectSeq(s1, IsKept)
        s3 == SubRuns(s2, SpaceOrUnderscore, "-")
        s4 == StripBy(SubRuns(s3, Hyphen, "-"), Hyphen)
    IN  IF s4 = <<>> THEN <<"n", "o", "t", "e">> ELSE s4

safe_segment(s) ==
    LET s1 == Strip(s)
        s2 == SelectSeq(s1, IsKept)
        s3 == SubRuns(s2, SpaceChars, "_")
    IN  IF s3 = <<>> THEN <<"u", "n", "k", "n", "o", "w", "n">> ELSE s3

(***************************************************************************)
(* parse_tex_metadata                                                      *)
(***************************************************************************)
\* [A-Za-z0-9_\-]
IsKeyChar(c) == IsWord(c) \/ c = "-"

\* the length of the match of ([A-Za-z0-9_\-]+) at the start of s, 0 if none
KeyLen(s) ==
    CHOOSE k \in 0..Len(s) :
        /\ \A i \in 1..k : IsKeyChar(s[i])
        /\ k = Len(s) \/ ~IsKeyChar(s[k + 1])

\* META_LINE_RE.match(line): None, or <<group(1), group(2)>>
META_LINE_RE(line) ==
    LET t == LStrip(line)
        u == IF t # <<>> /\ t[1] = "%" THEN LStrip(Tail(t)) ELSE <<>>
        n == KeyLen(u)
        v == LStrip(SubSeq(u, n + 1, Len(u)))
    IN  IF n >= 1 /\ v # <<>> /\ v[1] = ":"
        THEN <<SubSeq(u, 1, n), Strip(Tail(v))>>
        ELSE None

\* line.strip() == ""
IsBlankLine(line) == Strip(line) = <<>>

\* line.lstrip().startswith("%")
IsCommentLine(line) == LET t == LStrip(line) IN t # <<>> /\ t[1] = "%"

\* meta.setdefault(key, value): the first value of a key stays
DictSetDefault(d, key, value) == IF key \in DOMAIN d THEN d ELSE (key :> value) @@ d

\* meta[key] = value
DictSet(d, key, value) == (key :> value) @@ d

\* d.get(key), d.get(key, default)
DictGet(d, key, default) == IF key \in DOMAIN d THEN d[key] ELSE default

EmptyDict == [k \in {} |-> <<>>]

\* one iteration of `for line in f` that does not break
MetaLineEffect(m, line) ==
    IF IsBlankLine(line) THEN m
    ELSE LET r == META_LINE_RE(line)
         IN  IF r = None THEN m
             ELSE DictSet(m, StrLower(Strip(r[1])), Strip(r[2]))

MetaLineBreaks(line) == ~IsBlankLine(line) /\ ~IsCommentLine(line)

RECURSIVE MetaScan(_, _, _)
MetaScan(lines, i, m) ==
    IF i > Len(lines) \/ MetaLineBreaks(lines[i]) THEN m
    ELSE MetaScan(lines, i + 1, MetaLineEffect(m, lines[i]))

parse_tex_metadata(lines) == MetaScan(lines, 1, EmptyDict)

(***************************************************************************)
(* parse_note_date                                                         *)
(***************************************************************************)
DigitVal(c) == Ord(c) - 48

IsLeap(y) == (y % 4 = 0 /\ y % 100 # 0) \/ y % 400 = 0

DaysInMonth(y, m) ==
    IF m = 2 THEN (IF IsLeap(y) THEN 29 ELSE 28)
    ELSE IF m \in {4, 6, 9, 11} THEN 30 ELSE 31

\* the directive %m of strptime: 1[0-2]|0[1-9]|[1-9]
MatchesMonth(t) ==
    \/ Len(t) = 2 /\ t[1] = "1" /\ t[2] \in {"0", "1", "2"}
    \/ Len(t) = 2 /\ t[1] = "0" /\ IsDigit(t[2]) /\ t[2] # "0"
    \/ Len(t) = 1 /\ IsDigit(t[1]) /\ t[1] # "0"

\* the directive %d of strptime: 3[0-1]|[1-2]\d|0[1-9]|[1-9]| [1-9]
MatchesDay(t) ==
    \/ Len(t) = 2 /\ t[1] = "3" /\ t[2] \in {"0", "1"}
    \/ Len(t) = 2 /\ t[1] \in {"1", "2"} /\ IsDigit(t[2])
    \/ Len(t) = 2 /\ t[1] \in {"0", " "} /\ IsDigit(t[2]) /\ t[2] # "0"
    \/ Len(t) = 1 /\ IsDigit(t[1]) /\ t[1] # "0"

\* int() of a run of digits, a leading blank skipped
RECURSIVE IntOf(_)
IntOf(t) ==
    IF t = <<>> THEN 0
    ELSE IF t[Len(t)] = " " THEN 0
    ELSE DigitVal(t[Len(t)]) + 10 * IntOf(SubSeq(t, 1, Len(t) - 1))

\* datetime.strptime(s, "%Y-%m-%d").date(): <<year, month, day>>, or None for ValueError
strptime_ymd(s) ==
    LET second == {j \in 7..Len(s) : s[j] = "-"}
    IN  IF /\ Len(s) >= 8
           /\ \A i \in 1..4 : IsDigit(s[i])
           /\ s[5] = "-"
           /\ second # {}
        THEN LET j  == CHOOSE k \in second : \A l \in second : k <= l
                 mt == SubSeq(s, 6, j - 1)
                 dt == SubSeq(s, j + 1, Len(s))
                 y  == IntOf(SubSeq(s, 1, 4))
             IN  IF /\ MatchesMonth(mt)
                    /\ MatchesDay(dt)
                    /\ y >= 1
                    /\ IntOf(dt) <= DaysInMonth(y, IntOf(mt))
                 THEN <<y, IntOf(mt), IntOf(dt)>>
                 ELSE None
        ELSE None

\* date.min
DateMin == <<1, 1, 1>>

\* parse_note_date with date.max as the sentinel
parse_note_date_max(d) ==
    IF d = None \/ d = <<>> THEN <<9999, 12, 31>>
    ELSE LET r == strptime_ymd(Strip(d))
         IN  IF r = None THEN <<9999, 12, 31>> ELSE r

parse_note_date(d) ==
    IF d = None \/ d = <<>> THEN DateMin
    ELSE LET r == strptime_ymd(Strip(d))
         IN  IF r = None THEN DateMin ELSE r

DateLt(a, b) ==
    \/ a[1] < b[1]
    \/ a[1] = b[1] /\ a[2] < b[2]
    \/ a[1] = b[1] /\ a[2] = b[2] /\ a[3] < b[3]

(***************************************************************************)
(* Paths.  A path below STAGING_DIR or OUT_DIR is the sequence of its      *)
(* parts.  A staged file is [parts, lines].                                *)
(***************************************************************************)
\* Path.__lt__: the parts compared as a list of str
PathLt(a, b) ==
    \E k \in 0..Len(a) :
        /\ k <= Len(b)
        /\ \A i \in 1..k : a[i] = b[i]
        /\ \/ k = Len(a) /\ k < Len(b)
           \/ k < Len(a) /\ k < Len(b) /\ StrLt(a[k + 1], b[k + 1])

\* sorted(STAGING_DIR.rglob("*.tex")) over a set of staged files with distinct paths
SortedFiles(files) ==
    LET rank == Tabled([f \in files |->
                          Cardinality({g \in files : PathLt(g.parts, f.parts)}) + 1])
    IN  Listed([i \in 1..Cardinality(files) |-> CHOOSE f \in files : rank[f] = i])

\* Path.stem of a name that ends in ".tex"
Stem(name) == IF Len(name) > 4 THEN SubSeq(name, 1, Len(name) - 4) ELSE name

\* Path.parent
Parent(parts) == SubSeq(parts, 1, Len(parts) - 1)

\* Path.as_posix() of a path relative to REPO_ROOT, for a path below OUT_DIR = REPO_ROOT/notes
AsPosix(parts) == Join(<<<<"n", "o", "t", "e", "s">>>> \o parts, <<"/">>)

(***************************************************************************)
(* build_notes_index                                                       *)
(***************************************************************************)
\* s.split(",")
RECURSIVE SplitComma(_)
SplitComma(s) ==
    LET commas == {i \in 1..Len(s) : s[i] = ","}
        n == CHOOSE i \in commas : \A j \in commas : i <= j
    IN  IF commas = {} THEN <<s>>
        ELSE <<SubSeq(s, 1, n - 1)>> \o SplitComma(SubSeq(s, n + 1, Len(s)))

\* [t.strip() for t in meta.get("tags", "").split(",") if t.strip()]
TagsOf(m) ==
    LET raw == SplitComma(DictGet(m, <<"t", "a", "g", "s">>, <<>>))
        stripped == [i \in 1..Len(raw) |-> Strip(raw[i])]
    IN  SelectSeq(stripped, LAMBDA t : t # <<>>)

\* p.stem.replace("_", " ").replace("-", " ").title()
TitleFromStem(name) == StrTitle(ReplaceChar(ReplaceChar(Stem(name), "_", " "), "-", " "))

\* a depth check that lets <topic>/<file>.tex through
TooShallowBelowTwo(f) == Len(f.parts) < 2

\* infer_topic_course dies on this file
TooShallow(f) == Len(f.parts) < 3

\* the Note that one iteration of build_notes_index appends for the file f
NoteOf(f) ==
    LET m      == parse_tex_metadata(f.lines)
        topic  == safe_segment(f.parts[1])
        course == safe_segment(f.parts[2])
        mt     == DictGet(m, <<"t", "i", "t", "l", "e">>, None)
        title  == IF mt = None \/ mt = <<>> THEN TitleFromStem(f.parts[Len(f.parts)]) ELSE mt
        slug   == slugify(title)
    IN  [title  |-> title,
         date   |-> DictGet(m, <<"d", "a", "t", "e">>, None),
         tags   |-> TagsOf(m),
         topic  |-> topic,
         course |-> course,
         slug   |-> slug,
         src    |-> f.parts,
         out    |-> <<topic, course, slug \o <<".", "q", "m", "d">>>>]

(***************************************************************************)
(* The sort key and the two sorts                                          *)
(***************************************************************************)
\* key=lambda x: (parse_note_date(x.date), x.title.lower())
NoteKey(n) == <<parse_note_date(n.date), StrLower(n.title)>>

KeyLt(a, b) == DateLt(a[1], b[1]) \/ (a[1] = b[1] /\ StrLt(a[2], b[2]))

KeyLeq(a, b) == ~KeyLt(b, a)

\* a sort that was left out: the list stays in discovery order
SortSkipped(seq) == seq

\* list.sort(key=..., reverse=False): stable, equal keys keep their order
SortAscending(seq) ==
    LET key == Listed([i \in 1..Len(seq) |-> NoteKey(seq[i])])
        before(j, i) == KeyLt(key[j], key[i]) \/ (key[j] = key[i] /\ j < i)
        rank == Listed([i \in 1..Len(seq) |->
                          Cardinality({j \in 1..Len(seq) : before(j, i)}) + 1])
    IN  Listed([p \in 1..Len(seq) |-> seq[CHOOSE i \in 1..Len(seq) : rank[i] = p]])

Reverse(seq) == Listed([i \in 1..Len(seq) |-> seq[Len(seq) + 1 - i]])

\* list(reversed(sorted(key=...))): equal keys end up in reverse discovery order
SortAscendingReversed(seq) == Reverse(SortAscending(seq))

\* sorted(key=..., reverse=True): descending and still stable
SortDescending(seq) ==
    LET key == Listed([i \in 1..Len(seq) |-> NoteKey(seq[i])])
        before(j, i) == KeyLt(key[i], key[j]) \/ (key[j] = key[i] /\ j < i)
        rank == Listed([i \in 1..Len(seq) |->
                          Cardinality({j \in 1..Len(seq) : before(j, i)}) + 1])
    IN  Listed([p \in 1..Len(seq) |-> seq[CHOOSE i \in 1..Len(seq) : rank[i] = p]])

\* sorted(names) for a set of str
SortedNames(names) ==
    LET rank == Tabled([s \in names |-> Cardinality({t \in names : StrLt(t, s)}) + 1])
    IN  Listed([i \in 1..Cardinality(names) |-> CHOOSE s \in names : rank[s] = i])

(***************************************************************************)
(* generate_quarto_yml                                                     *)
(***************************************************************************)
\* a tree keyed by course alone
TreeGroupByCourse(reg, topic, course) ==
    SortAscending(SelectSeq(reg, LAMBDA n : n.course = course))

\* tree[topic][course] after the sorting loop
TreeGroup(reg, topic, course) ==
    SortAscending(SelectSeq(reg, LAMBDA n : n.topic = topic /\ n.course = course))

TreeTopics(reg) == {reg[i].topic : i \in 1..Len(reg)}

TreeCourses(reg, topic) == {reg[i].course : i \in {j \in 1..Len(reg) : reg[j].topic = topic}}

\* name.replace("_", " ")
DisplayLabel(name) == ReplaceChar(name, "_", " ")

\* the topics sorted by their display labels
TopicOrderByLabel(reg) ==
    LET labels == SortedNames({DisplayLabel(t) : t \in TreeTopics(reg)})
    IN  Listed([i \in 1..Len(labels) |->
                  CHOOSE t \in TreeTopics(reg) : DisplayLabel(t) = labels[i]])

\* the order in which the topic sections are emitted
TopicOrder(reg) == SortedNames(TreeTopics(reg))

\* the order in which the course sections of a topic are emitted
CourseOrder(reg, topic) == SortedNames(TreeCourses(reg, topic))

LeafEntry(n) == [text |-> n.title, href |-> AsPosix(n.out)]

CourseSection(reg, topic, course) ==
    LET g == TreeGroup(reg, topic, course)
    IN  [section  |-> DisplayLabel(course),
         contents |-> [i \in 1..Len(g) |-> LeafEntry(g[i])]]

TopicSection(reg, topic) ==
    LET cs == CourseOrder(reg, topic)
    IN  [section  |-> DisplayLabel(topic),
         contents |-> [i \in 1..Len(cs) |-> CourseSection(reg, topic, cs[i])]]

HomeEntry == [text |-> <<"H", "o", "m", "e">>,
              href |-> <<"i", "n", "d", "e", "x", ".", "q", "m", "d">>]

\* sidebar_contents is bound inside `for topic in tree`: unbound for an empty registry
SidebarIsBound(reg) == Len(reg) > 0

SidebarContents(reg) ==
    LET ts == TopicOrder(reg)
    IN  <<HomeEntry>> \o [i \in 1..Len(ts) |-> TopicSection(reg, ts[i])]

(***************************************************************************)
(* write_homepage                                                          *)
(***************************************************************************)
HomepageLimit == 30

\* notes_sorted[:30]
Truncate(seq) == SubSeq(seq, 1, IF Len(seq) < HomepageLimit THEN Len(seq) ELSE HomepageLimit)

\* notes_sorted
HomepageOrder(reg) == SortDescending(reg)

\* "- [title](rel)" followed by " - date" when the note has a non-empty date
HomepageLine(n) ==
    [text |-> n.title,
     href |-> AsPosix(n.out),
     date |-> IF n.date = None \/ n.date = <<>> THEN <<>> ELSE n.date]

HomepageLines(reg) ==
    LET shown == Truncate(HomepageOrder(reg))
    IN  [i \in 1..Len(shown) |-> HomepageLine(shown[i])]

(***************************************************************************)
(* The file system below OUT_DIR: the <topic>/<course> directories, the    *)
(* documents by path, the copied asset folders by path.                    *)
(***************************************************************************)
EmptyDir == [exists |-> TRUE, dirs |-> {}, docs |-> EmptyDict, assets |-> EmptyDict]

AbsentDir == [exists |-> FALSE, dirs |-> {}, docs |-> EmptyDict, assets |-> EmptyDict]

\* a file of REPO_ROOT: absent, left by an earlier run, or written by this one
AbsentFile == [state |-> "absent", content |-> <<>>]

StaleFile == [state |-> "stale", content |-> <<>>]

Written(content) == [state |-> "written", content |-> content]

\* a write that leaves an existing file alone
WriteTextIfAbsent(files, path, content) ==
    IF path \in DOMAIN files THEN files ELSE DictSet(files, path, content)

\* Path.write_text: creates the file or replaces its content
WriteText(files, path, content) == DictSet(files, path, content)

\* what tex_to_qmd writes for a note: the front matter and pandoc's rendering of note.src
DocOf(n) == [title |-> n.title, date |-> n.date, tags |-> n.tags, body |-> n.src]

AssetFolderNames == <<<<"i", "m", "a", "g", "e", "s">>, <<"a", "s", "s", "e", "t", "s">>>>

\* copy_note_assets: each existing sibling folder replaces its copy next to the document
RECURSIVE CopyFolders(_, _, _, _)
CopyFolders(copied, n, existing, k) ==
    IF k > Len(AssetFolderNames) THEN copied
    ELSE LET src_dir == Parent(n.src) \o <<AssetFolderNames[k]>>
             dst_dir == Parent(n.out) \o <<AssetFolderNames[k]>>
         IN  CopyFolders(IF src_dir \in existing THEN DictSet(copied, dst_dir, src_dir)
                         ELSE copied,
                         n, existing, k + 1)

(***************************************************************************)
(* main                                                                    *)
(***************************************************************************)
\* die(msg): the message on stderr, exit status 1
Die(msg) ==
    /\ stderr' = Append(stderr, msg)
    /\ exit_code' = <<1>>
    /\ pc' = "exit"

MetaIdle == UNCHANGED <<meta_lines, meta_pos, meta>>

RequirePandoc ==
    /\ pc = "require_pandoc"
    /\ IF env.pandoc
       THEN pc' = "find_tex_files" /\ UNCHANGED <<stderr, exit_code>>
       ELSE Die("pandoc not found")
    /\ UNCHANGED <<env, tex_files, notes, idx, out_dir, index_qmd, quarto_yml, log>>
    /\ MetaIdle

FindTexFiles ==
    /\ pc = "find_tex_files"
    /\ IF ~env.staging_exists
       THEN Die("Missing staging directory") /\ UNCHANGED tex_files
       ELSE /\ tex_files' = SortedFiles(env.staging)
            /\ pc' = "check_tex_files"
            /\ UNCHANGED <<stderr, exit_code>>
    /\ UNCHANGED <<env, notes, idx, out_dir, index_qmd, quarto_yml, log>>
    /\ MetaIdle

\* main: if not tex_files: die(...)
CheckTexFiles ==
    /\ pc = "check_tex_files"
    /\ IF Len(tex_files) = 0
       THEN Die("No .tex files found") /\ UNCHANGED idx
       ELSE pc' = "build_notes_index" /\ idx' = 1 /\ UNCHANGED <<stderr, exit_code>>
    /\ UNCHANGED <<env, tex_files, notes, out_dir, index_qmd, quarto_yml, log>>
    /\ MetaIdle

\* one iteration of `for p in tex_files`; the last one returns to main
BuildNotesIndex ==
    /\ pc = "build_notes_index"
    /\ LET p == tex_files[idx]
       IN  IF TooShallow(p)
           THEN Die("Expected notes_staging/<topic>/<course>/<file>.tex")
                /\ UNCHANGED <<notes, idx>>
           ELSE /\ notes' = Append(notes, NoteOf(p))
                /\ IF idx < Len(tex_files)
                   THEN idx' = idx + 1 /\ pc' = "build_notes_index"
                   ELSE idx' = 1 /\ pc' = "clean_generated_output"
                /\ UNCHANGED <<stderr, exit_code>>
    /\ UNCHANGED <<env, tex_files, out_dir, index_qmd, quarto_yml, log>>
    /\ MetaIdle

CleanGeneratedOutput ==
    /\ pc = "clean_generated_output"
    /\ out_dir' = EmptyDir
    /\ log' = Append(log, <<"clean">>)
    /\ pc' = "tex_to_qmd"
    /\ UNCHANGED <<env, tex_files, notes, idx, index_qmd, quarto_yml, stderr, exit_code>>
    /\ MetaIdle

\* tex_to_qmd with the output directory cleared anew for every note
TexToQmdCleaning ==
    /\ pc = "tex_to_qmd"
    /\ out_dir' = [EmptyDir EXCEPT !.dirs = {Parent(notes[idx].out)},
                                   !.docs = WriteText(@, notes[idx].out, DocOf(notes[idx]))]
    /\ log' = log \o <<<<"clean">>, <<"tex_to_qmd", idx>>>>
    /\ pc' = "copy_note_assets"
    /\ UNCHANGED <<env, tex_files, notes, idx, index_qmd, quarto_yml, stderr, exit_code>>
    /\ MetaIdle

\* tex_to_qmd(notes[idx]); returncode is pandoc's exit status
TexToQmd ==
    /\ pc = "tex_to_qmd"
    /\ \E returncode \in {0, 1} :
        LET n == notes[idx]
            made == [out_dir EXCEPT !.dirs = @ \cup {Parent(n.out)}]
        IN  IF returncode # 0
            THEN /\ out_dir' = made
                 /\ Die("Pandoc failed")
                 /\ UNCHANGED log
            ELSE /\ out_dir' = [made EXCEPT !.docs = WriteText(@, n.out, DocOf(n))]
                 /\ log' = Append(log, <<"tex_to_qmd", idx>>)
                 /\ pc' = "copy_note_assets"
                 /\ UNCHANGED <<stderr, exit_code>>
    /\ UNCHANGED <<env, tex_files, notes, idx, index_qmd, quarto_yml>>
    /\ MetaIdle

\* copy_note_assets(notes[idx]), then the next iteration of `for n in notes`
CopyNoteAssets ==
    /\ pc = "copy_note_assets"
    /\ out_dir' = [out_dir EXCEPT !.assets = CopyFolders(@, notes[idx], env.asset_dirs, 1)]
    /\ log' = Append(log, <<"copy_note_assets", idx>>)
    /\ IF idx < Len(notes)
       THEN idx' = idx + 1 /\ pc' = "tex_to_qmd"
       ELSE idx' = idx /\ pc' = "write_homepage"
    /\ UNCHANGED <<env, tex_files, notes, index_qmd, quarto_yml, stderr, exit_code>>
    /\ MetaIdle

WriteHomepage ==
    /\ pc = "write_homepage"
    /\ index_qmd' = Written(HomepageLines(notes))
    /\ log' = Append(log, <<"write_homepage">>)
    /\ pc' = "generate_quarto_yml"
    /\ UNCHANGED <<env, tex_files, notes, idx, out_dir, quarto_yml, stderr, exit_code>>
    /\ MetaIdle

GenerateQuartoYml ==
    /\ pc = "generate_quarto_yml"
    /\ IF ~SidebarIsBound(notes)
           THEN /\ stderr' = Append(stderr, "UnboundLocalError") /\ exit_code' = <<1>> /\ pc' = "exit"
                /\ UNCHANGED <<quarto_yml, log>>
           ELSE /\ quarto_yml' = Written(SidebarContents(notes))
                /\ log' = Append(log, <<"generate_quarto_yml">>)
                /\ pc' = "print"
                /\ UNCHANGED <<stderr, exit_code>>
    /\ UNCHANGED <<env, tex_files, notes, idx, out_dir, index_qmd>>
    /\ MetaIdle

\* main's last line, and the normal exit
PrintSummary ==
    /\ pc = "print"
    /\ pc' = "exit"
    /\ exit_code' = <<0>>
    /\ UNCHANGED <<env, tex_files, notes, idx, out_dir, index_qmd, quarto_yml, stderr, log>>
    /\ MetaIdle

(***************************************************************************)
(* parse_tex_metadata, line by line: the body of `for line in f`           *)
(***************************************************************************)
MainIdle ==
    UNCHANGED <<env, tex_files, notes, idx, out_dir, index_qmd, quarto_yml,
                stderr, exit_code, log>>

\* if line.strip() == "": continue
MetaSkipBlank ==
    /\ pc = "parse_tex_metadata"
    /\ meta_pos <= Len(meta_lines)
    /\ IsBlankLine(meta_lines[meta_pos])
    /\ meta_pos' = meta_pos + 1
    /\ UNCHANGED <<pc, meta_lines, meta>>
    /\ MainIdle

\* if not line.lstrip().startswith("%"): break
MetaBreak ==
    /\ pc = "parse_tex_metadata"
    /\ meta_pos <= Len(meta_lines)
    /\ MetaLineBreaks(meta_lines[meta_pos])
    /\ pc' = "return_meta"
    /\ UNCHANGED <<meta_lines, meta_pos, meta>>
    /\ MainIdle

\* m = META_LINE_RE.match(line); if m: meta[...] = ...
MetaComment ==
    /\ pc = "parse_tex_metadata"
    /\ meta_pos <= Len(meta_lines)
    /\ ~IsBlankLine(meta_lines[meta_pos])
    /\ ~MetaLineBreaks(meta_lines[meta_pos])
    /\ meta' = MetaLineEffect(meta, meta_lines[meta_pos])
    /\ meta_pos' = meta_pos + 1
    /\ UNCHANGED <<pc, meta_lines>>
    /\ MainIdle

\* the file is exhausted
MetaEndOfFile ==
    /\ pc = "parse_tex_metadata"
    /\ meta_pos > Len(meta_lines)
    /\ pc' = "return_meta"
    /\ UNCHANGED <<meta_lines, meta_pos, meta>>
    /\ MainIdle

(***************************************************************************)
(* Inputs                                                                  *)
(***************************************************************************)
MaxFiles == 3

MaxNavNotes == 3

MaxOver == 1

MaxMetaLines == 3

K_title == <<"t", "i", "t", "l", "e">>

K_date == <<"d", "a", "t", "e">>

K_tags == <<"t", "a", "g", "s">>

\* the line "% key: value\n"
MetaLineOf(key, value) == <<"%", " ">> \o key \o <<":", " ">> \o value \o <<"\n">>

TexName(stem) == stem \o <<".", "t", "e", "x">>

D_valid == <<"2", "0", "2", "4", "-", "0", "3", "-", "0", "1">>

D_earlier == <<"2", "0", "2", "3", "-", "1", "2", "-", "3", "1">>

D_min == <<"0", "0", "0", "1", "-", "0", "1", "-", "0", "1">>

D_unpadded == <<"2", "0", "2", "4", "-", "3", "-", "1">>

D_bad == <<"2", "0", "2", "4", "-", "0", "2", "-", "3", "0">>

\* the staged files a run may find
StagedCandidates ==
    { [parts |-> <<<<"p">>, <<"m">>, TexName(<<"n", "1">>)>>,
       lines |-> <<MetaLineOf(K_title, <<"A", "b">>), MetaLineOf(K_date, D_valid),
                   <<"x", "\n">>>>],
      [parts |-> <<<<"p">>, <<"m">>, TexName(<<"n", "2">>)>>,
       lines |-> <<MetaLineOf(K_title, <<"a", "b">>), <<"\n">>,
                   MetaLineOf(K_tags, <<"u", ",", " ", ",", "v">>)>>],
      [parts |-> <<<<"p">>, <<"m", " ", "x">>, TexName(<<"a", "_", "b">>)>>,
       lines |-> <<<<"x", "\n">>, MetaLineOf(K_title, <<"z">>)>>],
      [parts |-> <<<<"p">>, <<"m">>, <<"s">>, TexName(<<"z">>)>>,
       lines |-> <<MetaLineOf(K_date, D_unpadded)>>],
      [parts |-> <<<<"q">>, TexName(<<"f">>)>>,
       lines |-> <<MetaLineOf(K_title, <<"f">>)>>],
      [parts |-> <<TexName(<<"a">>)>>,
       lines |-> <<>>] }

StagingChoices == {fs \in SUBSET StagedCandidates : Cardinality(fs) <= MaxFiles}

\* the images/ and assets/ folders that exist next to staged files
AssetDirChoices ==
    { {},
      { <<<<"p">>, <<"m">>, AssetFolderNames[1]>>,
        <<<<"p">>, <<"m">>, AssetFolderNames[2]>>,
        <<<<"p">>, <<"m">>, <<"s">>, AssetFolderNames[1]>> } }

\* what an earlier run left behind
StaleDir ==
    [exists |-> TRUE,
     dirs   |-> {<<<<"p">>, <<"m">>>>},
     docs   |-> (<<<<"p">>, <<"m">>, <<"o", "l", "d", ".", "q", "m", "d">>>> :>
                    [title |-> <<"o", "l", "d">>, date |-> None, tags |-> <<>>,
                     body |-> <<<<"p">>, <<"m">>, <<"o", "l", "d", ".", "t", "e", "x">>>>]),
     assets |-> EmptyDict]

\* the notes of the registries the emitters are checked on
NavKinds ==
    { [topic |-> <<"p">>, course |-> <<"m">>, title |-> <<"b">>, date |-> D_valid],
      [topic |-> <<"p">>, course |-> <<"m">>, title |-> <<"B">>, date |-> None],
      [topic |-> <<"p">>, course |-> <<"m">>, title |-> <<"a">>, date |-> D_min],
      [topic |-> <<"p">>, course |-> <<"m">>, title |-> <<"a">>, date |-> D_unpadded],
      [topic |-> <<"p">>, course |-> <<"m">>, title |-> <<"A">>, date |-> D_earlier],
      [topic |-> <<"p">>, course |-> <<"m">>, title |-> <<"c">>, date |-> D_bad],
      [topic |-> <<"p", " ", "q">>, course |-> <<"m">>, title |-> <<"b">>, date |-> D_bad],
      [topic |-> <<"p", "A">>, course |-> <<"m">>, title |-> <<"B">>, date |-> None],
      [topic |-> <<"p", "A">>, course |-> <<"m", " ", "n">>, title |-> <<"a">>, date |-> D_valid],
      [topic |-> <<"p", "A">>, course |-> <<"m", "A">>, title |-> <<"b">>, date |-> None] }

\* the i-th file name: n01.tex, n02.tex, ...
NavFileName(i) == TexName(<<"n", Digits[(i \div 10) + 1], Digits[(i % 10) + 1]>>)

NavFile(i, kind) ==
    [parts |-> <<kind.topic, kind.course, NavFileName(i)>>,
     lines |-> <<MetaLineOf(K_title, kind.title)>> \o
               (IF kind.date = None THEN <<>> ELSE <<MetaLineOf(K_date, kind.date)>>)]

\* short staging trees of every shape, and long ones that alternate two kinds
NavStagings ==
    UNION { { {NavFile(i, ks[i]) : i \in 1..n} : ks \in [1..n -> NavKinds] }
            : n \in 1..MaxNavNotes }
    \cup
    { {NavFile(i, IF i % 2 = 1 THEN k1 ELSE k2) : i \in 1..n}
      : <<k1, k2, n>> \in NavKinds \X NavKinds \X (HomepageLimit..(HomepageLimit + MaxOver)) }

\* the lines a staged file may start with
MetaLineChoices ==
    { MetaLineOf(K_title, <<"A", "b">>),
      <<"%", "T", "i", "t", "l", "e", " ", ":", " ", " ", "c", " ", "d", " ", "\t", "\n">>,
      <<" ", " ", "%", " ", "d", "a", "t", "e", ":", "2", "0", "2", "4", "-", "0", "3", "-", "0", "1", "\n">>,
      <<"%", " ", "t", "i", "t", "l", "e", ":", " ", "e">>,
      <<"%", " ", "a", " ", "c", "o", "m", "m", "e", "n", "t", "\n">>,
      <<"%", "%", " ", "t", "i", "t", "l", "e", ":", " ", "z", "\n">>,
      <<"%", " ", "d", "a", "t", "e", ":", "\n">>,
      <<"\n">>,
      <<" ", "\t", VT, "\n">>,
      <<FS, "%", " ", "t", "a", "g", "s", ":", US, "u", GS, RS, "\n">>,
      <<"x", " ", "%", " ", "t", "i", "t", "l", "e", ":", " ", "q", "\n">> }

\* `for line in f`: every line but the last of a file ends in a newline
IsFileLines(ls) == \A i \in 1..(Len(ls) - 1) : ls[i][Len(ls[i])] = "\n"

MetaInputs ==
    { ls \in UNION { [1..n -> MetaLineChoices] : n \in 0..MaxMetaLines } : IsFileLines(ls) }

(***************************************************************************)
(* Specifications                                                          *)
(***************************************************************************)
\* a whole run of main(), from any environment
Init ==
    /\ \E pandoc \in BOOLEAN, staging_exists \in BOOLEAN, staging \in StagingChoices,
          asset_dirs \in AssetDirChoices, old \in BOOLEAN :
          /\ ~staging_exists => staging = {} /\ asset_dirs = {}
          /\ env = [pandoc         |-> pandoc,
                    staging_exists |-> staging_exists,
                    staging        |-> staging,
                    asset_dirs     |-> asset_dirs,
                    old_out        |-> IF old THEN StaleDir ELSE AbsentDir,
                    old_index      |-> IF old THEN StaleFile ELSE AbsentFile,
                    old_quarto     |-> IF old THEN StaleFile ELSE AbsentFile]
    /\ pc = "require_pandoc"
    /\ tex_files = <<>>
    /\ notes = <<>>
    /\ idx = 0
    /\ out_dir = env.old_out
    /\ index_qmd = env.old_index
    /\ quarto_yml = env.old_quarto
    /\ exit_code = <<>>
    /\ stderr = <<>>
    /\ log = <<>>
    /\ meta_lines = <<>>
    /\ meta_pos = 0
    /\ meta = EmptyDict

Next ==
    \/ RequirePandoc
    \/ FindTexFiles
    \/ CheckTexFiles
    \/ BuildNotesIndex
    \/ CleanGeneratedOutput
    \/ TexToQmd
    \/ CopyNoteAssets
    \/ WriteHomepage
    \/ GenerateQuartoYml
    \/ PrintSummary

Spec == Init /\ [][Next]_vars

\* the state of main() after `for n in notes` when every conversion succeeded
RECURSIVE ConvertedDir(_, _, _)
ConvertedDir(dir, reg, i) ==
    IF i > Len(reg) THEN dir
    ELSE ConvertedDir([exists |-> TRUE,
                       dirs   |-> dir.dirs \cup {Parent(reg[i].out)},
                       docs   |-> WriteText(dir.docs, reg[i].out, DocOf(reg[i])),
                       assets |-> dir.assets],
                      reg, i + 1)

RECURSIVE ConvertedLog(_)
ConvertedLog(n) ==
    IF n = 0 THEN <<<<"clean">>>>
    ELSE ConvertedLog(n - 1) \o <<<<"tex_to_qmd", n>>, <<"copy_note_assets", n>>>>

\* the emitters, on the registry of any staging tree of NavStagings
InitNav ==
    /\ \E staging \in NavStagings :
          /\ env = [pandoc         |-> TRUE,
                    staging_exists |-> TRUE,
                    staging        |-> staging,
                    asset_dirs     |-> {},
                    old_out        |-> AbsentDir,
                    old_index      |-> AbsentFile,
                    old_quarto     |-> AbsentFile]
          /\ tex_files = SortedFiles(staging)
    /\ notes = Listed([i \in 1..Len(tex_files) |-> NoteOf(tex_files[i])])
    /\ pc = "write_homepage"
    /\ idx = Len(notes)
    /\ out_dir = ConvertedDir(EmptyDir, notes, 1)
    /\ index_qmd = AbsentFile
    /\ quarto_yml = AbsentFile
    /\ exit_code = <<>>
    /\ stderr = <<>>
    /\ log = ConvertedLog(Len(notes))
    /\ meta_lines = <<>>
    /\ meta_pos = 0
    /\ meta = EmptyDict

NextNav ==
    \/ WriteHomepage
    \/ GenerateQuartoYml
    \/ PrintSummary

SpecNav == InitNav /\ [][NextNav]_vars

\* parse_tex_metadata on any file of MetaInputs
InitMeta ==
    /\ env = [pandoc         |-> TRUE,
              staging_exists |-> TRUE,
              staging        |-> {},
              asset_dirs     |-> {},
              old_out        |-> AbsentDir,
              old_index      |-> AbsentFile,
              old_quarto     |-> AbsentFile]
    /\ pc = "parse_tex_metadata"
    /\ tex_files = <<>>
    /\ notes = <<>>
    /\ idx = 0
    /\ out_dir = AbsentDir
    /\ index_qmd = AbsentFile
    /\ quarto_yml = AbsentFile
    /\ exit_code = <<>>
    /\ stderr = <<>>
    /\ log = <<>>
    /\ meta_lines \in MetaInputs
    /\ meta_pos = 1
    /\ meta = EmptyDict

NextMeta ==
    \/ MetaSkipBlank
    \/ MetaBreak
    \/ MetaComment
    \/ MetaEndOfFile

SpecMeta == InitMeta /\ [][NextMeta]_vars

(***************************************************************************)
(* Properties of the emitters (SpecNav)                                    *)
(***************************************************************************)
\* the sanitized name a section label stands for (sanitized names hold no blank)
NameOfLabel(label) == ReplaceChar(label, " ", "_")

YmlWritten == quarto_yml.state = "written"

HomeWritten == index_qmd.state = "written"

\* the emitted topic sections
TopicSections == Tail(quarto_yml.content)

\* the registry's notes of one group, in discovery order
GroupMembers(topic, course) ==
    SelectSeq(notes, LAMBDA n : n.topic = topic /\ n.course = course)

\* a date of the exact form YYYY-MM-DD that names a calendar day
IsStrictDate(d) ==
    /\ d # None
    /\ Len(d) = 10
    /\ \A i \in {1, 2, 3, 4, 6, 7, 9, 10} : IsDigit(d[i])
    /\ d[5] = "-" /\ d[8] = "-"
    /\ strptime_ymd(d) # None

\* the date the claims' wording gives a note: its day if YYYY-MM-DD, else the minimal date
StrictDateOf(d) == IF IsStrictDate(d) THEN strptime_ymd(d) ELSE DateMin

StrictKey(n) == <<StrictDateOf(n.date), StrLower(n.title)>>

\* the leaves of every emitted course section are the group's notes in an order whose
\* adjacent pairs are ordered by the given key
GroupsOrderedBy(Key(_)) ==
    \A ti \in 1..Len(TopicSections) :
        \A ci \in 1..Len(TopicSections[ti].contents) :
            LET sec    == TopicSections[ti].contents[ci]
                g      == TreeGroup(notes, NameOfLabel(TopicSections[ti].section),
                                    NameOfLabel(sec.section))
                key    == Listed([p \in 1..Len(g) |-> Key(g[p])])
            IN  /\ Len(sec.contents) = Len(g)
                /\ \A p \in 1..Len(g) : sec.contents[p] = LeafEntry(g[p])
                /\ \A p \in 1..(Len(g) - 1) : KeyLeq(key[p], key[p + 1])

\* C1 as stated: in every emitted (topic, course) group adjacent entries are ordered by
\* (date, lowercase title), where every date not of the form YYYY-MM-DD counts as minimal
C1_Original == YmlWritten => GroupsOrderedBy(StrictKey)

\* C1 amended: in every emitted (topic, course) group adjacent entries a, b satisfy
\* key(a) <= key(b) for key(n) = (parse_note_date(n.date), lowercase title), where
\* parse_note_date yields the minimal date for a missing date and for one that strptime
\* rejects under %Y-%m-%d, and the day for YYYY-MM-DD and for unpadded forms like 2024-3-1
C1_GroupsSorted ==
    YmlWritten =>
        /\ GroupsOrderedBy(NoteKey)
        /\ \A i \in 1..Len(notes) :
               LET d == notes[i].date
               IN  /\ (d = None \/ d = <<>> \/ strptime_ymd(Strip(d)) = None)
                        => parse_note_date(d) = DateMin
                   /\ (d # None /\ d # <<>> /\ strptime_ymd(Strip(d)) # None)
                        => parse_note_date(d) = strptime_ymd(Strip(d))

\* a group of three notes that the sort reordered, one of them with an unpadded date
C1_Witness ==
    /\ YmlWritten
    /\ \E i \in 1..Len(notes) :
          LET g == TreeGroup(notes, notes[i].topic, notes[i].course)
          IN  /\ Len(g) >= 3
              /\ g # GroupMembers(notes[i].topic, notes[i].course)
              /\ \E p \in 1..Len(g) : g[p].date = D_unpadded

\* the leaves of the whole emitted tree, as <<topic label, course label, leaf>>
EmittedLeaves ==
    UNION { UNION { { <<ti, ci, p>> : p \in 1..Len(TopicSections[ti].contents[ci].contents) }
                    : ci \in 1..Len(TopicSections[ti].contents) }
            : ti \in 1..Len(TopicSections) }

\* C2: every note of the registry is exactly one leaf of the emitted tree, under the
\* section of its topic and the sub-section of its course, and there is no other leaf
C2_Lossless ==
    YmlWritten =>
        /\ Cardinality(EmittedLeaves) = Len(notes)
        /\ \A ti \in 1..Len(TopicSections) :
               \A ci \in 1..Len(TopicSections[ti].contents) :
                   LET sec     == TopicSections[ti].contents[ci]
                       members == GroupMembers(NameOfLabel(TopicSections[ti].section),
                                               NameOfLabel(sec.section))
                   IN  /\ Len(members) > 0
                       /\ Len(sec.contents) = Len(members)
                       /\ \A e \in Range(sec.contents) \cup {LeafEntry(members[k]) : k \in 1..Len(members)} :
                              Cardinality({p \in 1..Len(sec.contents) : sec.contents[p] = e})
                                = Cardinality({k \in 1..Len(members) : LeafEntry(members[k]) = e})
        /\ \A i \in 1..Len(notes) :
               /\ Cardinality({ti \in 1..Len(TopicSections) :
                                 TopicSections[ti].section = DisplayLabel(notes[i].topic)}) = 1
               /\ LET ti == CHOOSE t \in 1..Len(TopicSections) :
                                TopicSections[t].section = DisplayLabel(notes[i].topic)
                  IN  Cardinality({ci \in 1..Len(TopicSections[ti].contents) :
                                     TopicSections[ti].contents[ci].section
                                       = DisplayLabel(notes[i].course)}) = 1

\* notes in three groups, two of them with the same title and slug in one group
C2_Witness ==
    /\ YmlWritten
    /\ Cardinality(EmittedLeaves) >= 3
    /\ Len(TopicSections) >= 2
    /\ \E i, j \in 1..Len(notes) :
          /\ i # j
          /\ notes[i].out = notes[j].out
          /\ notes[i].title = notes[j].title

\* the (date, lowercase title) key of an emitted homepage line
LineKey(e) == <<parse_note_date(e.date), StrLower(e.text)>>

LinesOf(seq) == Listed([i \in 1..Len(seq) |-> HomepageLine(seq[i])])

HaveEqualKeys == \E i, j \in 1..Len(notes) : i # j /\ NoteKey(notes[i]) = NoteKey(notes[j])

\* C3 as stated: the homepage list is the reverse of the full ascending sort, cut to 30
C3_Original ==
    HomeWritten => index_qmd.content = LinesOf(Truncate(Reverse(SortAscending(notes))))

\* C3 amended: the homepage list is the descending sort of all notes by (parsed date,
\* lowercase title) in which notes of equal key keep discovery order, cut to its first 30
\* entries; its length is min(30, number of notes); position by position it has the keys of
\* the reversed ascending sort, and it is that reversed sort when no two keys are equal
C3_HomepageOrder ==
    HomeWritten =>
        LET shown == index_qmd.content
            n     == Len(notes)
            rev   == Reverse(SortAscending(notes))
            desc  == HomepageOrder(notes)
            key   == Listed([p \in 1..n |-> NoteKey(desc[p])])
        IN  /\ Len(shown) = IF n < HomepageLimit THEN n ELSE HomepageLimit
            /\ \A p \in 1..Len(shown) : LineKey(shown[p]) = NoteKey(rev[p])
            /\ \A i \in 1..n : Cardinality({p \in 1..n : desc[p] = notes[i]}) = 1
            /\ Len(desc) = n
            /\ \A p \in 1..(n - 1) :
                   \/ KeyLt(key[p + 1], key[p])
                   \/ key[p + 1] = key[p] /\ PathLt(desc[p].src, desc[p + 1].src)
            /\ \A p \in 1..Len(shown) : shown[p] = HomepageLine(desc[p])
            /\ ~HaveEqualKeys => shown = LinesOf(Truncate(rev))

\* more than 30 notes, some with equal keys, written to the homepage
C3_Witness ==
    /\ HomeWritten
    /\ Len(notes) > HomepageLimit
    /\ Len(index_qmd.content) = HomepageLimit
    /\ HaveEqualKeys
    /\ index_qmd.content # LinesOf(Truncate(Reverse(SortAscending(notes))))

\* missing, empty, or rejected by strptime
IsUndated(d) == d = None \/ d = <<>> \/ strptime_ymd(Strip(d)) = None

PositionIn(seq, n) == CHOOSE p \in 1..Len(seq) : seq[p] = n

\* in the navigation group the undated note comes first, on the homepage it comes last
UndatedFirstThenLast(dated, undated) ==
    LET g == TreeGroup(notes, dated.topic, dated.course)
        h == HomepageOrder(notes)
    IN  /\ PositionIn(g, undated) < PositionIn(g, dated)
        /\ PositionIn(h, undated) > PositionIn(h, dated)
        /\ HomeWritten =>
              \A p, q \in 1..Len(index_qmd.content) :
                  (index_qmd.content[p] = HomepageLine(dated)
                     /\ index_qmd.content[q] = HomepageLine(undated)
                     /\ HomepageLine(dated) # HomepageLine(undated)) => p < q

SameGroup(a, b) == a.topic = b.topic /\ a.course = b.course

\* C4 as stated: of two notes of one group, one with a valid YYYY-MM-DD date and one with
\* a missing or unparseable date, the undated one is first in navigation and last on the
\* homepage, whatever their titles
C4_Original ==
    YmlWritten =>
        \A i, j \in 1..Len(notes) :
            (SameGroup(notes[i], notes[j]) /\ IsStrictDate(notes[i].date)
               /\ IsUndated(notes[j].date))
              => UndatedFirstThenLast(notes[i], notes[j])

\* C4 amended: the same, for a dated note whose date is later than 0001-01-01
C4_UndatedOrder ==
    YmlWritten =>
        \A i, j \in 1..Len(notes) :
            (SameGroup(notes[i], notes[j]) /\ IsStrictDate(notes[i].date)
               /\ DateLt(DateMin, strptime_ymd(notes[i].date))
               /\ IsUndated(notes[j].date))
              => UndatedFirstThenLast(notes[i], notes[j])

\* a dated note and, in its group, a note without a date and a note with an unparseable
\* date, both with a later title and later in discovery order
C4_Witness ==
    /\ YmlWritten
    /\ \E i, j, k \in 1..Len(notes) :
          /\ i < j /\ i < k
          /\ SameGroup(notes[i], notes[j]) /\ SameGroup(notes[i], notes[k])
          /\ IsStrictDate(notes[i].date)
          /\ DateLt(DateMin, strptime_ymd(notes[i].date))
          /\ notes[j].date = None
          /\ notes[k].date # None /\ IsUndated(notes[k].date)
          /\ StrLt(StrLower(notes[i].title), StrLower(notes[j].title))
          /\ StrLt(StrLower(notes[i].title), StrLower(notes[k].title))

StrictlyAscending(names) == \A p \in 1..(Len(names) - 1) : StrLt(names[p], names[p + 1])

\* C5: the sidebar is the Home entry, then one section per distinct topic in ascending
\* order of the sanitized topic names, each with one section per distinct course of the
\* topic in ascending order of the sanitized course names
C5_SidebarShape ==
    YmlWritten =>
        LET topics == Listed([ti \in 1..Len(TopicSections) |->
                                NameOfLabel(TopicSections[ti].section)])
        IN  /\ quarto_yml.content[1] = HomeEntry
            /\ Len(quarto_yml.content) = 1 + Cardinality(TreeTopics(notes))
            /\ Range(topics) = TreeTopics(notes)
            /\ StrictlyAscending(topics)
            /\ \A ti \in 1..Len(TopicSections) :
                   LET courses == Listed([ci \in 1..Len(TopicSections[ti].contents) |->
                                            NameOfLabel(TopicSections[ti].contents[ci].section)])
                   IN  /\ TopicSections[ti].section = DisplayLabel(topics[ti])
                       /\ Range(courses) = TreeCourses(notes, topics[ti])
                       /\ Len(courses) = Cardinality(TreeCourses(notes, topics[ti]))
                       /\ StrictlyAscending(courses)

\* two topics, and two courses of one topic, whose labels sort the other way round
C5_Witness ==
    /\ YmlWritten
    /\ \E ti \in 1..(Len(TopicSections) - 1) :
          StrLt(TopicSections[ti + 1].section, TopicSections[ti].section)
    /\ \E ti \in 1..Len(TopicSections) :
          \E ci \in 1..(Len(TopicSections[ti].contents) - 1) :
              StrLt(TopicSections[ti].contents[ci + 1].section,
                    TopicSections[ti].contents[ci].section)

(***************************************************************************)
(* Properties of a run of main (Spec)                                      *)
(***************************************************************************)
Exited == pc = "exit"

\* nothing below REPO_ROOT differs from what the run found
Untouched ==
    /\ out_dir = env.old_out
    /\ index_qmd = env.old_index
    /\ quarto_yml = env.old_quarto

\* every note document, the homepage and the site configuration are written
Complete ==
    /\ exit_code = <<0>>
    /\ HomeWritten
    /\ YmlWritten
    /\ \A i \in 1..Len(notes) : notes[i].out \in DOMAIN out_dir.docs

\* C6 as stated: a run either completes with everything written, or aborts and leaves the
\* output directory, the homepage and the site configuration as they were
C6_AllOrNothing == Exited => (Complete \/ Untouched)

\* the fatal conditions that main meets before any conversion
PreConversionFatal ==
    \/ ~env.pandoc
    \/ ~env.staging_exists
    \/ env.staging = {}
    \/ \E f \in env.staging : Len(f.parts) < 3

\* C7: with a staged file fewer than 3 components below the staging root, a missing
\* converter, a missing staging directory or no input file, the run never reaches the
\* clearing of the output directory, writes nothing, has a next step until it exits, and
\* exits with a non-zero status
C7_NoOutputOnEarlyAbort ==
    PreConversionFatal =>
        /\ pc \in {"require_pandoc", "find_tex_files", "check_tex_files",
                   "build_notes_index", "exit"}
        /\ Untouched
        /\ log = <<>>
        /\ Exited => exit_code = <<1>> /\ Len(stderr) = 1
        /\ pc = "build_notes_index" => idx \in 1..Len(tex_files)

\* a run that built notes for valid files, then met a shallow file and exited, with the
\* output of an earlier run still in place
C7_Witness ==
    /\ Exited
    /\ exit_code = <<1>>
    /\ Len(notes) >= 1
    /\ env.pandoc
    /\ \E f \in env.staging : Len(f.parts) = 2
    /\ env.old_out.exists
    /\ out_dir = env.old_out

IsPrefix(a, b) == Len(a) <= Len(b) /\ a = SubSeq(b, 1, Len(a))

\* clear, then conversion and asset copy note by note, then homepage, then configuration
RECURSIVE PerNoteOrder(_)
PerNoteOrder(n) ==
    IF n = 0 THEN <<>>
    ELSE PerNoteOrder(n - 1) \o <<<<"tex_to_qmd", n>>, <<"copy_note_assets", n>>>>

RunOrder(n) ==
    <<<<"clean">>>> \o PerNoteOrder(n) \o <<<<"write_homepage">>, <<"generate_quarto_yml">>>>

\* the number of times the run cleared and recreated the output directory
Clears == Cardinality({k \in 1..Len(log) : log[k] = <<"clean">>})

\* the order of the steps that touch the file system: the clear only with the registry
\* complete and before the first per-note write, never after one; every note converted
\* and its assets copied before the homepage; the homepage before the site configuration
StepsInOrder ==
    /\ IsPrefix(log, RunOrder(Len(notes)))
    /\ log # <<>> =>
          /\ log[1] = <<"clean">>
          /\ Len(tex_files) > 0
          /\ Len(notes) = Len(tex_files)
          /\ \A i \in 1..Len(notes) : notes[i] = NoteOf(tex_files[i])
          /\ DOMAIN out_dir.docs = {notes[k[2]].out : k \in {e \in Range(log) : e[1] = "tex_to_qmd"}}
    /\ log = <<>> => out_dir = env.old_out
    /\ HomeWritten <=> <<"write_homepage">> \in Range(log)
    /\ YmlWritten <=> <<"generate_quarto_yml">> \in Range(log)

\* C9 as stated: every run of main clears the output directory exactly once, and the
\* steps are in order
C9_Original ==
    /\ StepsInOrder
    /\ Exited => Clears = 1

\* C9 amended: a run clears the output directory at most once: exactly once when the
\* converter is found and the staging directory holds at least one file and only files
\* at least two directories deep, and never when the run aborts before the registry is
\* complete; no step before the clear has cleared, every step after it follows exactly
\* one clear; the steps are in order; a run that ends normally did all of them
C9_RunOrder ==
    /\ StepsInOrder
    /\ Clears <= 1
    /\ pc \in {"require_pandoc", "find_tex_files", "check_tex_files", "build_notes_index",
               "clean_generated_output"} => Clears = 0
    /\ pc \in {"tex_to_qmd", "copy_note_assets", "write_homepage", "generate_quarto_yml",
               "print"} => Clears = 1
    /\ Exited => (Clears = 1 <=> ~PreConversionFatal)
    /\ Exited /\ PreConversionFatal => Clears = 0 /\ exit_code = <<1>>
    /\ exit_code = <<0>> => log = RunOrder(Len(notes))

\* a finished run over three notes that replaced the output of an earlier run
C9_Witness ==
    /\ Exited
    /\ exit_code = <<0>>
    /\ Len(notes) >= 3
    /\ env.old_out.exists
    /\ log = RunOrder(Len(notes))

\* the notes that share the output path of note i
SameOut(i) == {j \in 1..Len(notes) : notes[j].out = notes[i].out}

\* the leaves of the emitted tree that point at a path
LeavesAt(href) ==
    {l \in EmittedLeaves : TopicSections[l[1]].contents[l[2]].contents[l[3]].href = href}

\* C10: notes with the same sanitized topic, course and slug do not abort the run and are
\* not reported; after a successful run their one document holds the content of the note
\* last in discovery order, and each of them is a navigation entry pointing at that path
C10_LastWriteWins ==
    /\ exit_code = <<0>> =>
          /\ stderr = <<>>
          /\ \A i \in 1..Len(notes) :
                LET last == CHOOSE j \in SameOut(i) : \A k \in SameOut(i) : k <= j
                IN  /\ out_dir.docs[notes[i].out] = DocOf(notes[last])
                    /\ out_dir.docs[notes[i].out].body = notes[last].src
                    /\ \A k \in SameOut(i) \ {last} : PathLt(notes[k].src, notes[last].src)
                    /\ Cardinality(LeavesAt(AsPosix(notes[i].out))) = Cardinality(SameOut(i))
                    /\ \E l \in LeavesAt(AsPosix(notes[i].out)) :
                          TopicSections[l[1]].contents[l[2]].contents[l[3]].text = notes[i].title
    /\ exit_code = <<1>> =>
          \/ stderr = <<"pandoc not found">> /\ ~env.pandoc
          \/ stderr = <<"Missing staging directory">> /\ ~env.staging_exists
          \/ stderr = <<"No .tex files found">> /\ env.staging = {}
          \/ stderr = <<"Expected notes_staging/<topic>/<course>/<file>.tex">>
               /\ \E f \in env.staging : Len(f.parts) < 3
          \/ stderr = <<"Pandoc failed">> /\ log # <<>>

\* a successful run with two notes of one output path and different titles
C10_Witness ==
    /\ Exited
    /\ exit_code = <<0>>
    /\ \E i, j \in 1..Len(notes) :
          /\ i < j
          /\ notes[i].out = notes[j].out
          /\ notes[i].title # notes[j].title
          /\ out_dir.docs[notes[i].out].title = notes[j].title

(***************************************************************************)
(* Properties of parse_tex_metadata (SpecMeta)                             *)
(***************************************************************************)
\* the line has a character that is not white space, and the first such is not %
StopsScan(line) ==
    \E k \in 1..Len(line) :
        /\ ~IsSpace(line[k])
        /\ line[k] # "%"
        /\ \A i \in 1..(k - 1) : IsSpace(line[i])

\* the index of the line that stops the scan, or one past the last line
StopIndex ==
    LET stops == {i \in 1..Len(meta_lines) : StopsScan(meta_lines[i])}
    IN  IF stops = {} THEN Len(meta_lines) + 1
        ELSE CHOOSE i \in stops : \A j \in stops : i <= j

\* the scanned lines that match "% key: value" with the key, lower-cased, being k
HitsOf(k) ==
    {i \in 1..(StopIndex - 1) :
        /\ META_LINE_RE(meta_lines[i]) # None
        /\ StrLower(META_LINE_RE(meta_lines[i])[1]) = k}

ScannedKeys ==
    {StrLower(META_LINE_RE(meta_lines[i])[1]) :
        i \in {j \in 1..(StopIndex - 1) : META_LINE_RE(meta_lines[j]) # None}}

\* C8: the mapping holds a key exactly if a matching line with that key, lower-cased,
\* occurs before the first line that is neither blank nor a comment; its value is the
\* trimmed value of the last such line
C8_Metadata ==
    pc = "return_meta" =>
        /\ meta_pos = StopIndex
        /\ DOMAIN meta = ScannedKeys
        /\ \A k \in ScannedKeys :
               LET last == CHOOSE i \in HitsOf(k) : \A j \in HitsOf(k) : j <= i
               IN  meta[k] = Strip(META_LINE_RE(meta_lines[last])[2])
        /\ meta = parse_tex_metadata(meta_lines)

\* a key given twice with different values, then a stopping line that itself holds a key
C8_Witness ==
    /\ pc = "return_meta"
    /\ StopIndex <= Len(meta_lines)
    /\ \E i \in 1..Len(meta_lines) :
          /\ i >= StopIndex
          /\ \E k \in 1..Len(meta_lines[i]) : meta_lines[i][k] = "%"
    /\ \E k \in ScannedKeys :
          /\ Cardinality(HitsOf(k)) >= 2
          /\ \E i, j \in HitsOf(k) :
                /\ i < j
                /\ Strip(META_LINE_RE(meta_lines[i])[2]) # Strip(META_LINE_RE(meta_lines[j])[2])
                /\ meta[k] = Strip(META_LINE_RE(meta_lines[j])[2])

====
